---------------------------- MODULE Spec2Model ----------------------------
(***************************************************************************)
(* Model of the campus search engine: the chained hash table               *)
(* (datastructure/hashtable.py), the linked list it chains with            *)
(* (datastructure/linkedlist.py), the trie (datastructure/trie.py), the    *)
(* tokenizer and the index engine (search_engine.py) and the request       *)
(* handlers that share one engine (app.py).                                *)
(*                                                                         *)
(* A Python str is a sequence of one-character strings; Ord gives the code *)
(* point of a character.  An Optional value is <<>> (None) or <<v>>.       *)
(***************************************************************************)
EXTENDS Integers, Sequences, FiniteSets, TLC

VARIABLES
    ht,             \* a stand-alone HashTable instance: [capacity, size, buckets]
    htLast,         \* history: key -> value of the most recent set(key, value)
    htRet,          \* what the last HashTable call returned
    inverted_index, \* CampusSearchEngine.inverted_index (a HashTable of term -> list)
    lists,          \* the posting LinkedList objects: reference -> list of Postings
    trie,           \* CampusSearchEngine.trie: node path -> TrieNode
    documents,      \* CampusSearchEngine.documents: doc_id -> record
    doc_counter,    \* CampusSearchEngine.doc_counter
    ingested,       \* history: token sequence of every accepted document, in order
    last,           \* the last engine call: [op, arg, ret]
    threads         \* the request handlers in flight (threaded server)

vars == <<ht, htLast, htRet, inverted_index, lists, trie, documents, doc_counter,
          ingested, last, threads>>

htVars == <<ht, htLast, htRet>>
engineVars == <<inverted_index, lists, trie, documents, doc_counter, ingested, last>>

-----------------------------------------------------------------------------
(* Characters and strings *)

None == <<>>
Some(v) == <<v>>

LowerLetters ==
    <<"a", "b", "c", "d", "e", "f", "g", "h", "i", "j", "k", "l", "m",
      "n", "o", "p", "q", "r", "s", "t", "u", "v", "w", "x", "y", "z">>

UpperLetters ==
    <<"A", "B", "C", "D", "E", "F", "G", "H", "I", "J", "K", "L", "M",
      "N", "O", "P", "Q", "R", "S", "T", "U", "V", "W", "X", "Y", "Z">>

DigitChars == <<"0", "1", "2", "3", "4", "5", "6", "7", "8", "9">>

Range(q) == {q[i] : i \in DOMAIN q}

IndexOf(q, x) == CHOOSE i \in DOMAIN q : q[i] = x

LowerSet == Range(LowerLetters)
UpperSet == Range(UpperLetters)
DigitSet == Range(DigitChars)

\* ord(ch) for the ASCII letters and digits
OrdTable ==
    [ch \in LowerSet \cup UpperSet \cup DigitSet |->
        IF ch \in LowerSet THEN 96 + IndexOf(LowerLetters, ch)
        ELSE IF ch \in UpperSet THEN 64 + IndexOf(UpperLetters, ch)
        ELSE 47 + IndexOf(DigitChars, ch)]

Ord(ch) == OrdTable[ch]

\* str.lower(), character by character
LowerTable == [ch \in UpperSet |-> LowerLetters[IndexOf(UpperLetters, ch)]]

LowerChar(ch) == IF ch \in UpperSet THEN LowerTable[ch] ELSE ch

Lower(text) == [i \in DOMAIN text |-> LowerChar(text[i])]

\* str.strip(): leading and trailing whitespace removed
RECURSIVE Strip(_)
Strip(text) ==
    IF text = <<>> THEN text
    ELSE IF Head(text) = " " THEN Strip(Tail(text))
    ELSE IF text[Len(text)] = " " THEN Strip(SubSeq(text, 1, Len(text) - 1))
    ELSE text

\* str(n) for n >= 0: the decimal digits
RECURSIVE ToStr(_)
ToStr(n) ==
    IF n < 10 THEN <<DigitChars[n + 1]>>
    ELSE ToStr(n \div 10) \o <<DigitChars[(n % 10) + 1]>>

-----------------------------------------------------------------------------
(* datastructure/linkedlist.py: a list is the sequence of its node values *)

LinkedList_new == <<>>

LinkedList_append(list, value) == Append(list, value)

\* find: the position of the first node whose value satisfies the predicate
\* (here: whose key is `key`), 0 when there is none.
RECURSIVE LinkedList_findFrom(_, _, _)
LinkedList_findFrom(list, key, i) ==
    IF i > Len(list) THEN 0
    ELSE IF list[i][1] = key THEN i
    ELSE LinkedList_findFrom(list, key, i + 1)

LinkedList_find(list, key) == LinkedList_findFrom(list, key, 1)

LinkedList_items(list) == list

-----------------------------------------------------------------------------
(* datastructure/hashtable.py *)

MinCapacity == 8

Max(a, b) == IF a >= b THEN a ELSE b

\* self.buckets, a list of `len` LinkedLists: `at` holds the lists that are not
\* empty, by index; every other index below `len` holds an empty list
Buckets_new(n) == [len |-> n, at |-> <<>>]

Bucket(B, i) == IF i \in DOMAIN B.at THEN B.at[i] ELSE LinkedList_new

BucketPut(B, i, list) == [B EXCEPT !.at = (i :> list) @@ @]

HashTable_init(cap) ==
    LET c == Max(MinCapacity, cap)
    IN  [capacity |-> c, buckets |-> Buckets_new(c), size |-> 0]

RECURSIVE HashFrom(_, _, _, _)
HashFrom(h, key, i, cap) ==
    IF i > Len(key) THEN h
    ELSE HashFrom((h * 31 + Ord(key[i])) % cap, key, i + 1, cap)

\* a plausible slip: the hash is reduced modulo the initial capacity, so it is
\* not recomputed for the grown table
HashTable_hash_stale(T, key) == HashFrom(0, key, 1, MinCapacity)

HashTable_hash(T, key) == HashFrom(0, key, 1, T.capacity)

HashTable_get(T, key) ==
    LET index == HashTable_hash(T, key)
        bucket == Bucket(T.buckets, index)
        node == LinkedList_find(bucket, key)
    IN  IF node # 0 THEN Some(bucket[node][2]) ELSE None

\* the table after get(key): _hash, find and the return assign nothing to self
HashTable_get_self(T, key) == T

\* all (key, value) pairs of the buckets lo .. hi - 1, bucket by bucket in
\* index order, each bucket in list order
RECURSIVE BucketItems(_, _, _)
BucketItems(B, lo, hi) ==
    IF hi <= lo THEN <<>>
    ELSE IF hi = lo + 1 THEN LinkedList_items(Bucket(B, lo))
    ELSE LET mid == (lo + hi) \div 2
         IN  BucketItems(B, lo, mid) \o BucketItems(B, mid, hi)

\* a plausible slip: the table grows when the load factor reaches 0.75
LoadExceeded_reached(T) == 4 * T.size >= 3 * T.capacity

\* self.size / self.capacity > 0.75, in exact arithmetic
LoadExceeded(T) == 4 * T.size > 3 * T.capacity

RECURSIVE HashTable_set(_, _, _)
RECURSIVE HashTable_resize(_)
RECURSIVE SetAll(_, _, _)

\* the loop of _resize: self.set(key, value) for every old pair; a call has
\* completed (the table `done` is there) before the next pair is taken
SetAll(T, items, i) ==
    IF i > Len(items) THEN T
    ELSE LET done == HashTable_set(T, items[i][1], items[i][2])
         IN  IF done.size >= 0 THEN SetAll(done, items, i + 1) ELSE done

\* a plausible slip: only the head of every old chain is re-inserted
HashTable_resize_heads(T) ==
    LET heads == [T.buckets EXCEPT !.at = [i \in DOMAIN @ |-> <<@[i][1]>>]]
        cap == T.capacity * 2
        fresh == [capacity |-> cap, buckets |-> Buckets_new(cap), size |-> 0]
    IN  SetAll(fresh, BucketItems(heads, 0, heads.len), 1)

\* a plausible slip: size is not reset before the pairs are re-inserted
HashTable_resize_keepsize(T) ==
    LET cap == T.capacity * 2
        fresh == [capacity |-> cap, buckets |-> Buckets_new(cap), size |-> T.size]
    IN  SetAll(fresh, BucketItems(T.buckets, 0, T.buckets.len), 1)

HashTable_resize(T) ==
    LET old_buckets == T.buckets
        cap == T.capacity * 2
        fresh == [capacity |-> cap, buckets |-> Buckets_new(cap), size |-> 0]
    IN  SetAll(fresh, BucketItems(old_buckets, 0, old_buckets.len), 1)

\* a plausible slip: size is counted up also when the key was present
HashTable_set_counts(T, key, value) ==
    LET index == HashTable_hash(T, key)
        bucket == Bucket(T.buckets, index)
        node == LinkedList_find(bucket, key)
        T1 == [T EXCEPT
                 !.buckets = IF node # 0
                             THEN [@ EXCEPT !.at[index][node] = <<key, value>>]
                             ELSE BucketPut(@, index, LinkedList_append(bucket, <<key, value>>)),
                 !.size = T.size + 1]
    IN  IF node = 0 /\ LoadExceeded(T1) THEN HashTable_resize(T1) ELSE T1

HashTable_set(T, key, value) ==
    LET index == HashTable_hash(T, key)
        bucket == Bucket(T.buckets, index)
        node == LinkedList_find(bucket, key)
    IN  IF node # 0
        THEN [T EXCEPT !.buckets.at[index][node] = <<key, value>>]
        ELSE LET T1 == [T EXCEPT
                          !.buckets = BucketPut(@, index, LinkedList_append(bucket, <<key, value>>)),
                          !.size = T.size + 1]
             IN  IF LoadExceeded(T1) THEN HashTable_resize(T1) ELSE T1

-----------------------------------------------------------------------------
(* search_engine.py: the tokenizer *)

STOPWORDS ==
    {<<"a">>,
     <<"a", "n">>,
     <<"a", "n", "d">>,
     <<"a", "r", "e">>,
     <<"a", "s">>,
     <<"a", "t">>,
     <<"b", "e">>,
     <<"b", "u", "t">>,
     <<"b", "y">>,
     <<"f", "o", "r">>,
     <<"i", "f">>,
     <<"i", "n">>,
     <<"i", "n", "t", "o">>,
     <<"i", "s">>,
     <<"i", "t">>,
     <<"n", "o">>,
     <<"n", "o", "t">>,
     <<"o", "f">>,
     <<"o", "n">>,
     <<"o", "r">>,
     <<"s", "u", "c", "h">>,
     <<"t", "h", "a", "t">>,
     <<"t", "h", "e">>,
     <<"t", "h", "e", "i", "r">>,
     <<"t", "h", "e", "n">>,
     <<"t", "h", "e", "r", "e">>,
     <<"t", "h", "e", "s", "e">>,
     <<"t", "h", "e", "y">>,
     <<"t", "h", "i", "s">>,
     <<"t", "o">>,
     <<"w", "a", "s">>,
     <<"w", "i", "l", "l">>,
     <<"w", "i", "t", "h">>}

\* the character class [a-zA-Z0-9]
AlnumSet == LowerSet \cup UpperSet \cup DigitSet

IsAlnum(ch) == ch \in AlnumSet

\* re.findall(r"[a-zA-Z0-9]+", text): the maximal runs, left to right
RECURSIVE FindAll(_, _, _, _)
FindAll(text, i, cur, acc) ==
    IF i > Len(text) THEN (IF cur = <<>> THEN acc ELSE Append(acc, cur))
    ELSE IF IsAlnum(text[i]) THEN FindAll(text, i + 1, Append(cur, text[i]), acc)
    ELSE FindAll(text, i + 1, <<>>, IF cur = <<>> THEN acc ELSE Append(acc, cur))

RECURSIVE Filter(_, _)
Filter(tokens, drop) ==
    IF tokens = <<>> THEN <<>>
    ELSE IF Head(tokens) \in drop THEN Filter(Tail(tokens), drop)
    ELSE <<Head(tokens)>> \o Filter(Tail(tokens), drop)

\* a plausible slip: the text is not lowercased before the scan
tokenize_nolower(text) == Filter(FindAll(text, 1, <<>>, <<>>), STOPWORDS)

tokenize(text) == Filter(FindAll(Lower(text), 1, <<>>, <<>>), STOPWORDS)

-----------------------------------------------------------------------------
(* datastructure/trie.py: a node is named by the path that leads to it, and *)
(* its children are kept in insertion order, as a dict keeps them           *)

TrieNode_new == [children |-> <<>>, is_end |-> FALSE, frequency |-> 0]

Trie_init == (<<>> :> TrieNode_new)

RECURSIVE InsertFrom(_, _, _)
InsertFrom(t, word, i) ==
    LET node == SubSeq(word, 1, i - 1)
    IN  IF i > Len(word)
        THEN [t EXCEPT ![node].is_end = TRUE, ![node].frequency = @ + 1]
        ELSE LET ch == word[i]
                 child == Append(node, ch)
             IN  IF ch \in Range(t[node].children)
                 THEN InsertFrom(t, word, i + 1)
                 ELSE InsertFrom(
                        [t EXCEPT ![node].children = Append(@, ch)] @@ (child :> TrieNode_new),
                        word, i + 1)

Trie_insert(t, word) == InsertFrom(t, word, 1)

\* _walk: the node reached by prefix, None when a character has no child
RECURSIVE WalkFrom(_, _, _)
WalkFrom(t, prefix, i) ==
    LET node == SubSeq(prefix, 1, i - 1)
    IN  IF i > Len(prefix) THEN Some(node)
        ELSE IF prefix[i] \notin Range(t[node].children) THEN None
        ELSE WalkFrom(t, prefix, i + 1)

Trie_walk(t, prefix) == WalkFrom(t, prefix, 1)

\* the deque loop of autocomplete: pop left, collect a terminal node, push
\* the children in insertion order; a pass has completed (the deque `rest`
\* and the list `collected` are there) before the next node is popped
RECURSIVE Bfs(_, _, _)
Bfs(t, queue, results) ==
    IF queue = <<>> THEN results
    ELSE LET current == Head(queue)
             collected == IF t[current].is_end
                          THEN Append(results, <<current, t[current].frequency>>)
                          ELSE results
             pushed == [i \in DOMAIN t[current].children |->
                            Append(current, t[current].children[i])]
             rest == Tail(queue) \o pushed
         IN  IF Len(rest) + Len(collected) >= 0 THEN Bfs(t, rest, collected)
             ELSE collected

\* list.sort(key=item[1], reverse=True) and sorted(..., reverse=True): stable,
\* an item goes after every item whose key is at least its own
\* a plausible slip: an item goes before the items of equal key (not stable)
RECURSIVE InsertDesc_unstable(_, _)
InsertDesc_unstable(sorted, item) ==
    IF sorted = <<>> THEN <<item>>
    ELSE IF Head(sorted)[2] > item[2]
         THEN <<Head(sorted)>> \o InsertDesc_unstable(Tail(sorted), item)
    ELSE <<item>> \o sorted

\* `sorted` is in descending key order, so the items whose key is at least
\* the item's own are its first n
InsertDesc(sorted, item) ==
    LET n == Cardinality({i \in DOMAIN sorted : sorted[i][2] >= item[2]})
    IN  SubSeq(sorted, 1, n) \o <<item>> \o SubSeq(sorted, n + 1, Len(sorted))

\* a plausible slip: the items are taken from the last to the first
RECURSIVE SortDescFrom_backwards(_, _, _)
SortDescFrom_backwards(items, i, sorted) ==
    IF i > Len(items) THEN sorted
    ELSE SortDescFrom_backwards(items, i + 1, InsertDesc(sorted, items[Len(items) + 1 - i]))

\* an item has taken its place (the list `placed` is there) before the next
\* item is taken
RECURSIVE SortDescFrom(_, _, _)
SortDescFrom(items, i, sorted) ==
    IF i > Len(items) THEN sorted
    ELSE LET placed == InsertDesc(sorted, items[i])
         IN  IF Len(placed) >= 0 THEN SortDescFrom(items, i + 1, placed) ELSE placed

SortDesc(items) == SortDescFrom(items, 1, <<>>)

Min(a, b) == IF a <= b THEN a ELSE b

\* the slice results[:limit]
SliceTo(q, limit) ==
    IF limit >= 0 THEN SubSeq(q, 1, Min(limit, Len(q)))
    ELSE SubSeq(q, 1, Max(0, Len(q) + limit))

\* a plausible slip: the walk starts below the prefix's node, so the prefix
\* itself is never collected
Trie_autocomplete_proper(t, prefix, limit) ==
    LET node == Trie_walk(t, prefix)
    IN  IF node = None THEN <<>>
        ELSE LET below == [i \in DOMAIN t[node[1]].children |->
                              Append(node[1], t[node[1]].children[i])]
                 results == SortDesc(Bfs(t, below, <<>>))
                 cut == SliceTo(results, limit)
             IN  [i \in DOMAIN cut |-> cut[i][1]]

Trie_autocomplete(t, prefix, limit) ==
    LET node == Trie_walk(t, prefix)
    IN  IF node = None THEN <<>>
        ELSE LET results == SortDesc(Bfs(t, <<node[1]>>, <<>>))
                 cut == SliceTo(results, limit)
             IN  [i \in DOMAIN cut |-> cut[i][1]]

\* a plausible slip: _walk steps with children.setdefault(ch, TrieNode()), so
\* the nodes a prefix misses are created
RECURSIVE CreateFrom(_, _, _)
CreateFrom(t, prefix, i) ==
    LET node == SubSeq(prefix, 1, i - 1)
    IN  IF i > Len(prefix) THEN t
        ELSE IF prefix[i] \in Range(t[node].children) THEN CreateFrom(t, prefix, i + 1)
        ELSE CreateFrom([t EXCEPT ![node].children = Append(@, prefix[i])]
                            @@ (Append(node, prefix[i]) :> TrieNode_new),
                        prefix, i + 1)

Trie_autocomplete_self_creates(t, prefix, limit) == CreateFrom(t, prefix, 1)

\* the trie after autocomplete(prefix, limit): _walk reads children with `in`
\* and [], the loop reads is_end, frequency and children; nothing is assigned
Trie_autocomplete_self(t, prefix, limit) == t

-----------------------------------------------------------------------------
(* search_engine.py: the index engine.  A dict is the sequence of its        *)
(* (key, value) items in insertion order.  The inverted index maps a term to *)
(* a reference to its posting list; `lists` holds the lists themselves.      *)

Dict_has(d, k) == \E i \in DOMAIN d : d[i][1] = k

Dict_get(d, k, default) ==
    IF Dict_has(d, k) THEN d[CHOOSE i \in DOMAIN d : d[i][1] = k][2] ELSE default

\* d[k] = v: an existing key keeps its place, a new key goes last
Dict_set(d, k, v) ==
    IF Dict_has(d, k)
    THEN [i \in DOMAIN d |-> IF d[i][1] = k THEN <<k, v>> ELSE d[i]]
    ELSE Append(d, <<k, v>>)

DefaultCapacity == 1024

Engine_init ==
    [inverted_index |-> HashTable_init(DefaultCapacity),
     lists |-> <<>>,
     trie |-> Trie_init,
     documents |-> <<>>,
     doc_counter |-> 0]

Posting(doc_id, term_freq) == [doc_id |-> doc_id, term_freq |-> term_freq]

\* term_counts[token] = term_counts.get(token, 0) + 1, for every token
\* a plausible slip: one entry per occurrence, nothing aggregated
RECURSIVE CountTerms_each(_, _, _)
CountTerms_each(tokens, i, term_counts) ==
    IF i > Len(tokens) THEN term_counts
    ELSE CountTerms_each(tokens, i + 1, Append(term_counts, <<tokens[i], 1>>))

RECURSIVE CountTerms(_, _, _)
CountTerms(tokens, i, term_counts) ==
    IF i > Len(tokens) THEN term_counts
    ELSE CountTerms(tokens, i + 1,
                    Dict_set(term_counts, tokens[i], Dict_get(term_counts, tokens[i], 0) + 1))

\* a plausible slip: a new list is stored for the term on every pass
IndexTerm_fresh(E, doc_id, term, freq) ==
    LET ref == Len(E.lists) + 1
        E1 == [E EXCEPT !.lists = Append(@, LinkedList_new),
                        !.inverted_index = HashTable_set(@, term, ref)]
    IN  [E1 EXCEPT !.lists[ref] = LinkedList_append(@, Posting(doc_id, freq)),
                   !.trie = Trie_insert(@, term)]

\* a plausible slip: the term goes to the trie only when its list is created
IndexTerm_newonly(E, doc_id, term, freq) ==
    LET found == HashTable_get(E.inverted_index, term)
        ref == IF found = None THEN Len(E.lists) + 1 ELSE found[1]
        E1 == IF found = None
              THEN [E EXCEPT !.lists = Append(@, LinkedList_new),
                             !.inverted_index = HashTable_set(@, term, ref),
                             !.trie = Trie_insert(@, term)]
              ELSE E
    IN  [E1 EXCEPT !.lists[ref] = LinkedList_append(@, Posting(doc_id, freq))]

\* one pass of the loop over term_counts.items()
IndexTerm(E, doc_id, term, freq) ==
    LET found == HashTable_get(E.inverted_index, term)
        ref == IF found = None THEN Len(E.lists) + 1 ELSE found[1]
        E1 == IF found = None
              THEN [E EXCEPT !.lists = Append(@, LinkedList_new),
                             !.inverted_index = HashTable_set(@, term, ref)]
              ELSE E
    IN  [E1 EXCEPT !.lists[ref] = LinkedList_append(@, Posting(doc_id, freq)),
                   !.trie = Trie_insert(@, term)]

\* the loop over term_counts.items(); a pass has completed (the engine `done`
\* is there) before the next term is taken
RECURSIVE IndexTerms(_, _, _, _)
IndexTerms(E, doc_id, term_counts, i) ==
    IF i > Len(term_counts) THEN E
    ELSE LET done == IndexTerm(E, doc_id, term_counts[i][1], term_counts[i][2])
         IN  IF done.doc_counter >= 0 THEN IndexTerms(done, doc_id, term_counts, i + 1)
             ELSE done

DocRecord(title, filename, tokens) ==
    [title |-> title, filename |-> filename, length |-> ToStr(Len(tokens))]

\* a plausible slip: the record is stored before the emptiness test
add_document_stores_first(E, title, content, filename) ==
    LET tokens == tokenize(content)
        doc_id == E.doc_counter + 1
        E0 == [E EXCEPT !.documents = Dict_set(@, doc_id, DocRecord(title, filename, tokens))]
        E1 == [E0 EXCEPT !.doc_counter = doc_id]
    IN  IF tokens = <<>> THEN [engine |-> E0, ret |-> -1]
        ELSE [engine |-> IndexTerms(E1, doc_id, CountTerms(tokens, 1, <<>>), 1),
              ret |-> doc_id]

\* a plausible slip: the counter is advanced before the emptiness test
add_document_counts_first(E, title, content, filename) ==
    LET tokens == tokenize(content)
        doc_id == E.doc_counter + 1
        E0 == [E EXCEPT !.doc_counter = doc_id]
        E1 == [E0 EXCEPT !.documents = Dict_set(@, doc_id, DocRecord(title, filename, tokens))]
    IN  IF tokens = <<>> THEN [engine |-> E0, ret |-> -1]
        ELSE [engine |-> IndexTerms(E1, doc_id, CountTerms(tokens, 1, <<>>), 1),
              ret |-> doc_id]

add_document(E, title, content, filename) ==
    LET tokens == tokenize(content)
        doc_id == E.doc_counter + 1
        E1 == [E EXCEPT !.doc_counter = doc_id,
                        !.documents = Dict_set(@, doc_id, DocRecord(title, filename, tokens))]
    IN  IF tokens = <<>> THEN [engine |-> E, ret |-> -1]
        ELSE [engine |-> IndexTerms(E1, doc_id, CountTerms(tokens, 1, <<>>), 1),
              ret |-> doc_id]

PrefixLimit == 25

\* candidate_terms: the query tokens, or their expansions through the trie
\* a plausible slip: a candidate term reached twice is kept once
RECURSIVE CandidateTerms_dedup(_, _, _, _)
CandidateTerms_dedup(E, query_tokens, prefix, i) ==
    IF i > Len(query_tokens) THEN <<>>
    ELSE LET rest == CandidateTerms_dedup(E, query_tokens, prefix, i + 1)
             here == IF prefix THEN Trie_autocomplete(E.trie, query_tokens[i], PrefixLimit)
                     ELSE <<query_tokens[i]>>
         IN  here \o Filter(rest, Range(here))

RECURSIVE CandidateTerms(_, _, _, _)
CandidateTerms(E, query_tokens, prefix, i) ==
    IF i > Len(query_tokens) THEN <<>>
    ELSE (IF prefix THEN Trie_autocomplete(E.trie, query_tokens[i], PrefixLimit)
          ELSE <<query_tokens[i]>>)
         \o CandidateTerms(E, query_tokens, prefix, i + 1)

\* doc_scores[posting.doc_id] = doc_scores.get(posting.doc_id, 0) + posting.term_freq
\* a plausible slip: the score is assigned, not accumulated
RECURSIVE AddPostings_assign(_, _, _)
AddPostings_assign(doc_scores, postings, j) ==
    IF j > Len(postings) THEN doc_scores
    ELSE AddPostings_assign(
            Dict_set(doc_scores, postings[j].doc_id, postings[j].term_freq),
            postings, j + 1)

RECURSIVE AddPostings(_, _, _)
AddPostings(doc_scores, postings, j) ==
    IF j > Len(postings) THEN doc_scores
    ELSE AddPostings(
            Dict_set(doc_scores, postings[j].doc_id,
                     Dict_get(doc_scores, postings[j].doc_id, 0) + postings[j].term_freq),
            postings, j + 1)

\* the loop over candidate_terms; a term's postings have been added (the
\* dict `scored` is there) before the next term is taken
RECURSIVE Score(_, _, _, _)
Score(E, candidate_terms, i, doc_scores) ==
    IF i > Len(candidate_terms) THEN doc_scores
    ELSE LET found == HashTable_get(E.inverted_index, candidate_terms[i])
             scored == IF found = None THEN doc_scores
                       ELSE AddPostings(doc_scores, LinkedList_items(E.lists[found[1]]), 1)
         IN  IF Len(scored) >= 0 THEN Score(E, candidate_terms, i + 1, scored)
             ELSE scored

Engine_search(E, query, prefix) ==
    LET query_tokens == tokenize(query)
    IN  IF query_tokens = <<>> THEN <<>>
        ELSE SortDesc(Score(E, CandidateTerms(E, query_tokens, prefix, 1), 1, <<>>))

keyword_search(E, query) == Engine_search(E, query, FALSE)

prefix_search(E, query) == Engine_search(E, query, TRUE)

\* the trie and the table after the two loops of _search
RECURSIVE AutocompleteAll_self(_, _, _)
AutocompleteAll_self(t, query_tokens, i) ==
    IF i > Len(query_tokens) THEN t
    ELSE AutocompleteAll_self(Trie_autocomplete_self(t, query_tokens[i], PrefixLimit),
                              query_tokens, i + 1)

RECURSIVE GetAll_self(_, _, _)
GetAll_self(T, candidate_terms, i) ==
    IF i > Len(candidate_terms) THEN T
    ELSE GetAll_self(HashTable_get_self(T, candidate_terms[i]), candidate_terms, i + 1)

\* the engine after _search: doc_scores and candidate_terms are locals, the
\* engine's fields are touched by autocomplete and get only
Engine_search_self(E, query, prefix) ==
    LET query_tokens == tokenize(query)
    IN  IF query_tokens = <<>> THEN E
        ELSE [E EXCEPT
                !.trie = IF prefix THEN AutocompleteAll_self(@, query_tokens, 1) ELSE @,
                !.inverted_index =
                    GetAll_self(@, CandidateTerms(E, query_tokens, prefix, 1), 1)]

\* str.startswith and the substring test `a in b`
StartsWith(text, a) == Len(a) <= Len(text) /\ SubSeq(text, 1, Len(a)) = a

Contains(text, a) ==
    \E i \in 1 .. Len(text) + 1 :
        i + Len(a) - 1 <= Len(text) /\ SubSeq(text, i, i + Len(a) - 1) = a

\* a plausible slip: a match is put in front of the list, not appended
RECURSIVE FilenameScan_prepend(_, _, _, _)
FilenameScan_prepend(docs, query_value, prefix, i) ==
    IF i > Len(docs) THEN <<>>
    ELSE LET filename == Lower(docs[i][2].filename)
             is_match == IF prefix THEN StartsWith(filename, query_value)
                         ELSE Contains(filename, query_value)
         IN  FilenameScan_prepend(docs, query_value, prefix, i + 1)
             \o (IF filename # <<>> /\ is_match THEN <<(<<docs[i][1], 1>>)>> ELSE <<>>)

RECURSIVE FilenameScan(_, _, _, _)
FilenameScan(docs, query_value, prefix, i) ==
    IF i > Len(docs) THEN <<>>
    ELSE LET filename == Lower(docs[i][2].filename)
             is_match == IF prefix THEN StartsWith(filename, query_value)
                         ELSE Contains(filename, query_value)
         IN  (IF filename # <<>> /\ is_match THEN <<(<<docs[i][1], 1>>)>> ELSE <<>>)
             \o FilenameScan(docs, query_value, prefix, i + 1)

filename_search(E, query, prefix) ==
    LET query_value == Lower(Strip(query))
    IN  IF query_value = <<>> THEN <<>>
        ELSE FilenameScan(E.documents, query_value, prefix, 1)

-----------------------------------------------------------------------------
\* the engine after filename_search: the loop reads documents.items() and
\* meta.get("filename", ""), ranked is a local
filename_search_self(E, query, prefix) == E

-----------------------------------------------------------------------------
(* One engine driven call by call: the Flask application's search_index *)

MaxDocs == 3

ContentA == <<"c", "a", "t", " ", "d", "o", "g", " ", "c", "a", "t">>
ContentB == <<"d", "o", "g", " ", "d", "o", "g">>

\* limits handed to Trie.autocomplete
Limits == {0, 1, 2, 8}

\* add_document arguments: term-bearing texts, and texts with no term at all
\* (empty, separators only, stopwords only)
DocInputs ==
    {[title |-> <<"a">>,
      content |-> <<"c", "a", "t", " ", "d", "o", "g", " ", "c", "a", "t">>,
      filename |-> <<"a", ".", "t", "x", "t">>],
     [title |-> <<"b">>,
      content |-> <<"d", "o", "g", " ", "d", "o", "g">>,
      filename |-> <<"r", "e", "p", "o", "r", "t", "1", ".", "t", "x", "t">>],
     [title |-> <<"c">>,
      content |-> <<"C", "a", "t", ",", " ", "c", "a", "r">>,
      filename |-> <<"R", "e", "p", "o", "r", "t", "2", ".", "P", "D", "F">>],
     [title |-> <<"d">>,
      content |-> <<"c", "a", "r", " ", "c", "a">>,
      filename |-> <<>>],
     [title |-> <<"e">>,
      content |-> <<>>,
      filename |-> <<"e", ".", "t", "x", "t">>],
     [title |-> <<"f">>,
      content |-> <<" ", " ">>,
      filename |-> <<"f", ".", "t", "x", "t">>],
     [title |-> <<"h">>,
      content |-> <<".", ",">>,
      filename |-> <<"h", ".", "t", "x", "t">>],
     [title |-> <<"g">>,
      content |-> <<"t", "h", "e", " ", "a">>,
      filename |-> <<"g", ".", "t", "x", "t">>]}

\* query strings of keyword_search and prefix_search
Queries ==
    {<<"d", "o", "g">>,
     <<"c", "a", "t", " ", "d", "o", "g">>,
     <<"d", "o", "g", " ", "d", "o", "g">>,
     <<"c", "a">>,
     <<"c", " ", "c", "a">>,
     <<>>,
     <<"t", "h", "e">>,
     <<"b", "i", "r", "d">>,
     <<"C", "a", "t", ".">>}

\* query strings of filename_search
FilenameQueries ==
    {<<"r", "e", "p", "o", "r", "t">>,
     <<" ", "R", "E", "P", "O", "R", "T", " ">>,
     <<"a">>,
     <<>>}

\* the q parameter of /autocomplete
AutocompleteQueries ==
    {<<"c">>,
     <<"c", "a", "t", " ", "d", "o">>,
     <<>>,
     <<"C", "a", " ">>}

\* prefixes handed to Trie.autocomplete
Prefixes ==
    {<<>>,
     <<"c", "a">>,
     <<"d">>,
     <<"x">>}

Engine ==
    [inverted_index |-> inverted_index, lists |-> lists, trie |-> trie,
     documents |-> documents, doc_counter |-> doc_counter]

SetEngine(E) ==
    /\ inverted_index' = E.inverted_index
    /\ lists' = E.lists
    /\ trie' = E.trie
    /\ documents' = E.documents
    /\ doc_counter' = E.doc_counter

Init ==
    /\ ht = HashTable_init(MinCapacity)
    /\ htLast = <<>>
    /\ htRet = None
    /\ inverted_index = Engine_init.inverted_index
    /\ lists = Engine_init.lists
    /\ trie = Engine_init.trie
    /\ documents = Engine_init.documents
    /\ doc_counter = Engine_init.doc_counter
    /\ ingested = <<>>
    /\ last = [op |-> "init", arg |-> <<>>, ret |-> <<>>]
    /\ threads = <<>>

AddDocument(d) ==
    /\ Len(ingested) < MaxDocs
    /\ LET r == add_document(Engine, d.title, d.content, d.filename)
       IN  /\ SetEngine(r.engine)
           /\ ingested' = IF r.ret = -1 THEN ingested
                          ELSE Append(ingested, [doc_id |-> r.ret, content |-> d.content])
           /\ last' = [op |-> "add_document", arg |-> d, ret |-> r.ret]
    /\ UNCHANGED <<htVars, threads>>

KeywordSearch(query) ==
    /\ last' = [op |-> "keyword_search", arg |-> query, ret |-> keyword_search(Engine, query)]
    /\ SetEngine(Engine_search_self(Engine, query, FALSE))
    /\ UNCHANGED <<htVars, ingested, threads>>

PrefixSearch(query) ==
    /\ last' = [op |-> "prefix_search", arg |-> query, ret |-> prefix_search(Engine, query)]
    /\ SetEngine(Engine_search_self(Engine, query, TRUE))
    /\ UNCHANGED <<htVars, ingested, threads>>

FilenameSearch(query, prefix) ==
    /\ last' = [op |-> "filename_search", arg |-> <<query, prefix>>,
                ret |-> filename_search(Engine, query, prefix)]
    /\ SetEngine(filename_search_self(Engine, query, prefix))
    /\ UNCHANGED <<htVars, ingested, threads>>

TrieAutocomplete(prefix, limit) ==
    /\ last' = [op |-> "trie.autocomplete", arg |-> <<prefix, limit>>,
                ret |-> Trie_autocomplete(trie, prefix, limit)]
    /\ trie' = Trie_autocomplete_self(trie, prefix, limit)
    /\ UNCHANGED <<htVars, inverted_index, lists, documents, doc_counter, ingested, threads>>

\* terms handed to the inverted index's get
IndexTermsPool == {<<"c", "a", "t">>, <<"c", "a">>, <<"b", "i", "r", "d">>}

IndexGet(term) ==
    /\ last' = [op |-> "inverted_index.get", arg |-> term,
                ret |-> HashTable_get(inverted_index, term)]
    /\ inverted_index' = HashTable_get_self(inverted_index, term)
    /\ UNCHANGED <<htVars, lists, trie, documents, doc_counter, ingested, threads>>

\* str.split(): the maximal runs of non-whitespace characters
RECURSIVE Split(_, _, _, _)
Split(text, i, cur, acc) ==
    IF i > Len(text) THEN (IF cur = <<>> THEN acc ELSE Append(acc, cur))
    ELSE IF text[i] # " " THEN Split(text, i + 1, Append(cur, text[i]), acc)
    ELSE Split(text, i + 1, <<>>, IF cur = <<>> THEN acc ELSE Append(acc, cur))

\* values of the JSON response: a Python str and a Python int are different values
PyStr(x) == [str |-> x]
PyInt(n) == [int |-> n]

\* `for term, frequency in suggestions`: unpacking a str of two characters
\* yields its characters; a str of any other length raises ValueError
Unpack(suggestion) ==
    [term |-> PyStr(<<suggestion[1]>>), frequency |-> PyStr(<<suggestion[2]>>)]

\* app.py autocomplete(): the response body, or the exception it raises
autocomplete(E, query) ==
    IF query = <<>> THEN [suggestions |-> <<>>]
    ELSE LET words == Split(Strip(query), 1, <<>>, <<>>)
             last_token == IF Strip(query) # <<>> THEN Lower(words[Len(words)]) ELSE <<>>
             suggestions == Trie_autocomplete(E.trie, last_token, 8)
         IN  IF \E i \in DOMAIN suggestions : Len(suggestions[i]) # 2
             THEN [raised |-> "ValueError"]
             ELSE [suggestions |-> [i \in DOMAIN suggestions |-> Unpack(suggestions[i])]]

AutocompleteHandler(query) ==
    /\ last' = [op |-> "autocomplete", arg |-> query, ret |-> autocomplete(Engine, query)]
    /\ UNCHANGED <<htVars, inverted_index, lists, trie, documents, doc_counter, ingested, threads>>

Next ==
    \/ \E d \in DocInputs : AddDocument(d)
    \/ \E query \in Queries : KeywordSearch(query)
    \/ \E query \in Queries : PrefixSearch(query)
    \/ \E query \in FilenameQueries, prefix \in BOOLEAN : FilenameSearch(query, prefix)
    \/ \E query \in AutocompleteQueries : AutocompleteHandler(query)
    \/ \E prefix \in Prefixes, limit \in Limits : TrieAutocomplete(prefix, limit)
    \/ \E term \in IndexTermsPool : IndexGet(term)

Spec == Init /\ [][Next]_vars

-----------------------------------------------------------------------------
(* app.py served by a threaded server: every request runs its handler on a   *)
(* thread of its own against the one search_index, and no handler takes a    *)
(* lock.  A thread moves one statement of add_document at a time; a search   *)
(* or autocomplete call is taken as one step.                                *)

MaxUploads == 2

\* two requests in flight at a time
Threads == {1, 2}

\* the files uploaded and the queries asked while threads run side by side
ThreadDocs ==
    {d \in DocInputs : d.content \in {ContentA, ContentB, <<" ", " ">>}}

ThreadQueries == {<<"d", "o", "g">>}

IdleThread ==
    [pc |-> "idle", arg |-> <<>>, tokens |-> <<>>, doc_id |-> 0, term_counts |-> <<>>,
     i |-> 0, postings |-> 0, ranked |-> <<>>, ret |-> None, writers |-> {}]

\* the pcs of a thread that has entered add_document and not yet left it
AddPcs == {"tokenize", "incr", "read_id", "store", "get", "set", "append", "insert", "return"}

InAddDocument(t) == threads[t].pc \in AddPcs

Writers(t) == {u \in Threads \ {t} : InAddDocument(u)}

ThreadInit ==
    /\ ht = HashTable_init(MinCapacity)
    /\ htLast = <<>>
    /\ htRet = None
    /\ inverted_index = Engine_init.inverted_index
    /\ lists = Engine_init.lists
    /\ trie = Engine_init.trie
    /\ documents = Engine_init.documents
    /\ doc_counter = Engine_init.doc_counter
    /\ ingested = <<>>
    /\ last = [op |-> "init", arg |-> <<>>, ret |-> <<>>]
    /\ threads = [t \in Threads |-> IdleThread]

Goto(t, r) == threads' = [threads EXCEPT ![t] = r]

\* upload(): search_index.add_document(title, content, filename) is entered
Upload(t, d) ==
    /\ threads[t].pc = "idle"
    /\ doc_counter < MaxUploads
    /\ Goto(t, [IdleThread EXCEPT !.pc = "tokenize", !.arg = d])
    /\ UNCHANGED <<htVars, engineVars>>

\* tokens = tokenize(content); if not tokens: return -1
AddTokenize(t) ==
    /\ threads[t].pc = "tokenize"
    /\ LET tokens == tokenize(threads[t].arg.content)
       IN  IF tokens = <<>>
           THEN Goto(t, [threads[t] EXCEPT !.pc = "idle", !.ret = Some(-1)])
           ELSE Goto(t, [threads[t] EXCEPT !.pc = "incr", !.tokens = tokens])
    /\ UNCHANGED <<htVars, engineVars>>

\* self.doc_counter += 1
AddIncrement(t) ==
    /\ threads[t].pc = "incr"
    /\ doc_counter' = doc_counter + 1
    /\ Goto(t, [threads[t] EXCEPT !.pc = "read_id"])
    /\ UNCHANGED <<htVars, inverted_index, lists, trie, documents, ingested, last>>

\* doc_id = self.doc_counter
AddReadId(t) ==
    /\ threads[t].pc = "read_id"
    /\ Goto(t, [threads[t] EXCEPT !.pc = "store", !.doc_id = doc_counter])
    /\ UNCHANGED <<htVars, engineVars>>

\* self.documents[doc_id] = {...}, then the local term_counts
AddStore(t) ==
    /\ threads[t].pc = "store"
    /\ documents' = Dict_set(documents, threads[t].doc_id,
                             DocRecord(threads[t].arg.title, threads[t].arg.filename,
                                       threads[t].tokens))
    /\ Goto(t, [threads[t] EXCEPT !.pc = "get", !.i = 1,
                                  !.term_counts = CountTerms(threads[t].tokens, 1, <<>>)])
    /\ UNCHANGED <<htVars, inverted_index, lists, trie, doc_counter, ingested, last>>

ThreadTerm(t) == threads[t].term_counts[threads[t].i]

\* postings = self.inverted_index.get(term)
AddGet(t) ==
    /\ threads[t].pc = "get"
    /\ LET found == HashTable_get(inverted_index, ThreadTerm(t)[1])
       IN  IF found = None
           THEN Goto(t, [threads[t] EXCEPT !.pc = "set"])
           ELSE Goto(t, [threads[t] EXCEPT !.pc = "append", !.postings = found[1]])
    /\ UNCHANGED <<htVars, engineVars>>

\* postings = LinkedList(); self.inverted_index.set(term, postings)
AddSet(t) ==
    /\ threads[t].pc = "set"
    /\ lists' = Append(lists, LinkedList_new)
    /\ inverted_index' = HashTable_set(inverted_index, ThreadTerm(t)[1], Len(lists) + 1)
    /\ Goto(t, [threads[t] EXCEPT !.pc = "append", !.postings = Len(lists) + 1])
    /\ UNCHANGED <<htVars, trie, documents, doc_counter, ingested, last>>

\* postings.append(Posting(doc_id, freq))
AddAppend(t) ==
    /\ threads[t].pc = "append"
    /\ lists' = [lists EXCEPT ![threads[t].postings] =
                    LinkedList_append(@, Posting(threads[t].doc_id, ThreadTerm(t)[2]))]
    /\ Goto(t, [threads[t] EXCEPT !.pc = "insert"])
    /\ UNCHANGED <<htVars, inverted_index, trie, documents, doc_counter, ingested, last>>

\* self.trie.insert(term), and on to the next term
AddInsert(t) ==
    /\ threads[t].pc = "insert"
    /\ trie' = Trie_insert(trie, ThreadTerm(t)[1])
    /\ Goto(t, [threads[t] EXCEPT
                    !.pc = IF threads[t].i < Len(threads[t].term_counts) THEN "get" ELSE "return",
                    !.i = @ + 1])
    /\ UNCHANGED <<htVars, inverted_index, lists, documents, doc_counter, ingested, last>>

\* return doc_id
AddReturn(t) ==
    /\ threads[t].pc = "return"
    /\ ingested' = Append(ingested, [doc_id |-> threads[t].doc_id,
                                     content |-> threads[t].arg.content])
    /\ Goto(t, [threads[t] EXCEPT !.pc = "idle", !.ret = Some(threads[t].doc_id)])
    /\ UNCHANGED <<htVars, inverted_index, lists, trie, documents, doc_counter, last>>

\* search(): the handler is entered with q, prefix and filename
Search(t, query, mode) ==
    /\ threads[t].pc = "idle"
    /\ Goto(t, [IdleThread EXCEPT !.pc = "search", !.arg = [q |-> query, mode |-> mode]])
    /\ UNCHANGED <<htVars, engineVars>>

\* ranked = filename_search / prefix_search / keyword_search
SearchCall(t) ==
    /\ threads[t].pc = "search"
    /\ LET q == threads[t].arg.q
           ranked == CASE threads[t].arg.mode = "filename" -> filename_search(Engine, q, FALSE)
                       [] threads[t].arg.mode = "prefix" -> prefix_search(Engine, q)
                       [] OTHER -> keyword_search(Engine, q)
       IN  Goto(t, [threads[t] EXCEPT !.pc = "render", !.ranked = ranked,
                                      !.writers = Writers(t)])
    /\ UNCHANGED <<htVars, engineVars>>

\* the loop over ranked: documents.get(doc_id), skipped when absent
RECURSIVE Render(_, _, _)
Render(docs, ranked, i) ==
    IF i > Len(ranked) THEN <<>>
    ELSE (IF Dict_has(docs, ranked[i][1])
          THEN <<[title |-> Dict_get(docs, ranked[i][1], None).title,
                  filename |-> Dict_get(docs, ranked[i][1], None).filename,
                  score |-> ranked[i][2]]>>
          ELSE <<>>)
         \o Render(docs, ranked, i + 1)

SearchRender(t) ==
    /\ threads[t].pc = "render"
    /\ Goto(t, [threads[t] EXCEPT !.pc = "idle",
                                  !.ret = Some(Render(documents, threads[t].ranked, 1))])
    /\ UNCHANGED <<htVars, engineVars>>

\* autocomplete(): search_index.trie.autocomplete(last_token, limit=8)
Autocomplete(t, query) ==
    /\ threads[t].pc = "idle"
    /\ Goto(t, [IdleThread EXCEPT !.arg = [q |-> query, mode |-> "autocomplete"],
                                  !.ret = Some(autocomplete(Engine, query)),
                                  !.writers = Writers(t)])
    /\ UNCHANGED <<htVars, engineVars>>

ThreadNext ==
    \E t \in Threads :
        \/ \E d \in ThreadDocs : Upload(t, d)
        \/ AddTokenize(t)
        \/ AddIncrement(t)
        \/ AddReadId(t)
        \/ AddStore(t)
        \/ AddGet(t)
        \/ AddSet(t)
        \/ AddAppend(t)
        \/ AddInsert(t)
        \/ AddReturn(t)
        \/ \E query \in ThreadQueries, mode \in {"keyword", "prefix", "filename"} :
              Search(t, query, mode)
        \/ SearchCall(t)
        \/ SearchRender(t)
        \/ \E query \in ThreadQueries : Autocomplete(t, query)

SpecThreads == ThreadInit /\ [][ThreadNext]_vars

-----------------------------------------------------------------------------
(* tokenize called on texts: every text over TokChars up to MaxTextLen      *)
(* characters, grown one character at a time, and some longer texts          *)

MaxTextLen == 4

TokChars == {"a", "T", "h", "e", "7", " ", "-"}

TokSamples ==
    {<<"t", "h", "e", " ", "q", "u", "i", "c", "k", " ", "f", "o", "x", " ",
       "a", "n", "d", " ", "t", "h", "e", " ", "l", "a", "z", "y", " ", "d", "o", "g">>,
     <<"I", "s", " ", "i", "t", "?", " ", "N", "O", "!">>,
     <<"R", "2", "D", "2", "_", "x", ".", "T", "h", "e", "Y">>}

TokInit ==
    /\ ht = HashTable_init(MinCapacity)
    /\ htLast = <<>>
    /\ htRet = None
    /\ inverted_index = Engine_init.inverted_index
    /\ lists = Engine_init.lists
    /\ trie = Engine_init.trie
    /\ documents = Engine_init.documents
    /\ doc_counter = Engine_init.doc_counter
    /\ ingested = <<>>
    /\ last = [op |-> "tokenize", arg |-> <<>>, ret |-> tokenize(<<>>)]
    /\ threads = <<>>

Tokenize(text) ==
    /\ last' = [op |-> "tokenize", arg |-> text, ret |-> tokenize(text)]
    /\ UNCHANGED <<htVars, inverted_index, lists, trie, documents, doc_counter, ingested, threads>>

TokenizeLonger(ch) ==
    /\ Len(last.arg) < MaxTextLen
    /\ Tokenize(Append(last.arg, ch))

TokNext ==
    \/ \E text \in TokSamples : Tokenize(text)
    \/ \E ch \in TokChars : TokenizeLonger(ch)

SpecTok == TokInit /\ [][TokNext]_vars

-----------------------------------------------------------------------------
(* One engine holding a wide vocabulary: documents whose terms share their  *)
(* first letter, so that a query token comes to have PrefixLimit             *)
(* completions, fewer, or one more                                           *)

\* "kx ky ... ": the two-letter terms k + LowerLetters[lo .. hi], in order
WideContent(lo, hi) ==
    [i \in 1 .. 3 * (hi - lo + 1) |->
        IF i % 3 = 1 THEN "k"
        ELSE IF i % 3 = 2 THEN LowerLetters[lo + (i \div 3)]
        ELSE " "]

\* the terms of the second document end at this letter, and the third
\* document brings the terms that k is a prefix of to PrefixLimit - 1
WideSplit == 17

\* add_document arguments: between them the term k and PrefixLimit - 1 or
\* PrefixLimit terms that k is a proper prefix of
WideDocInputs ==
    {[title |-> <<"a">>,
      content |-> <<"k", " ">> \o WideContent(1, WideSplit \div 2),
      filename |-> <<"a", ".", "t", "x", "t">>],
     [title |-> <<"b">>,
      content |-> WideContent(WideSplit \div 2 + 1, WideSplit),
      filename |-> <<"b", ".", "t", "x", "t">>],
     [title |-> <<"c">>,
      content |-> WideContent(WideSplit + 1, PrefixLimit - 1),
      filename |-> <<"c", ".", "t", "x", "t">>],
     [title |-> <<"d">>,
      content |-> WideContent(WideSplit + 1, PrefixLimit),
      filename |-> <<"d", ".", "t", "x", "t">>]}

\* query strings of keyword_search and prefix_search
WideQueries ==
    {<<"k">>,
     <<"k", "a">>,
     <<"K", " ", "k", "x">>}

WideNext ==
    \/ \E d \in WideDocInputs : AddDocument(d)
    \/ \E query \in WideQueries : KeywordSearch(query)
    \/ \E query \in WideQueries : PrefixSearch(query)

SpecWide == Init /\ [][WideNext]_vars

-----------------------------------------------------------------------------
(* A stand-alone HashTable driven by set and get calls *)

HTMaxKeys == 13

KeyChars == <<"a", "b", "c">>

\* the i-th key of the pool: a, b, c, aa, ab, ... (pairwise distinct strings)
RECURSIVE KeyOf(_)
KeyOf(i) ==
    IF i = 0 THEN <<>>
    ELSE KeyOf((i - 1) \div 3) \o <<KeyChars[((i - 1) % 3) + 1]>>

HTKeys == {KeyOf(i) : i \in 1 .. HTMaxKeys}

HTValues == {"v1", "v2"}

\* capacities handed to the constructor (values below 8 are raised to 8)
HTInitCapacities == {1, 8, 12}

HTKeysSet == {k \in HTKeys : htLast[k] # None}

\* the keys whose value is replaced by later set calls: in the table of 32
\* buckets they are the head, an inner node and the tail of one chain
HTOverwriteKeys == {KeyOf(1), KeyOf(5), KeyOf(13)}

\* the keys a call may use: one already set, or one of the next three of the pool
HTNextKeys ==
    LET unused == {i \in 1 .. HTMaxKeys : htLast[KeyOf(i)] = None}
        first == {i \in unused : Cardinality({j \in unused : j < i}) < 3}
    IN  HTKeysSet \cup {KeyOf(i) : i \in first}

HTInit ==
    /\ \E cap \in HTInitCapacities : ht = HashTable_init(cap)
    /\ htLast = [k \in HTKeys |-> None]
    /\ htRet = None
    /\ inverted_index = HashTable_init(MinCapacity)
    /\ lists = <<>>
    /\ trie = Trie_init
    /\ documents = <<>>
    /\ doc_counter = 0
    /\ ingested = <<>>
    /\ last = [op |-> "init"]
    /\ threads = <<>>

\* set(key, value): a new key of the pool is stored with the first value; a
\* present key of HTOverwriteKeys is overwritten with any value
HTSet(key, value) ==
    /\ IF htLast[key] = None THEN value = "v1" ELSE key \in HTOverwriteKeys
    /\ ht' = HashTable_set(ht, key, value)
    /\ htLast' = [htLast EXCEPT ![key] = Some(value)]
    /\ htRet' = None
    /\ UNCHANGED <<engineVars, threads>>

HTGet(key) ==
    /\ htRet' = HashTable_get(ht, key)
    /\ ht' = HashTable_get_self(ht, key)
    /\ UNCHANGED <<htLast, engineVars, threads>>

HTNext ==
    \/ \E key \in HTNextKeys, value \in HTValues : HTSet(key, value)
    \/ \E key \in HTKeys : HTGet(key)

SpecHT == HTInit /\ [][HTNext]_vars

-----------------------------------------------------------------------------
(* Claims about the tokenizer *)

\* the maximal runs of ASCII letters and digits of text, as (first, last)
MaximalRuns(text) ==
    {r \in (DOMAIN text) \X (DOMAIN text) :
        /\ r[1] <= r[2]
        /\ \A k \in r[1] .. r[2] : text[k] \in AlnumSet
        /\ r[1] > 1 => text[r[1] - 1] \notin AlnumSet
        /\ r[2] < Len(text) => text[r[2] + 1] \notin AlnumSet}

\* C14: tokenize(text) is, in order of appearance, the maximal runs of ASCII
\* letters and digits of the lowercased text that are not stopwords; every
\* term is non-empty, lowercase alphanumeric and no stopword; the empty text
\* gives the empty sequence and "the quick fox and the lazy dog" gives
\* ["quick", "fox", "lazy", "dog"].
C14_Tokenize ==
    last.op = "tokenize" =>
        LET lowered == Lower(last.arg)
            kept == {r \in MaximalRuns(lowered) :
                        SubSeq(lowered, r[1], r[2]) \notin STOPWORDS}
            rank(r) == 1 + Cardinality({s \in kept : s[1] < r[1]})
        IN  /\ Len(last.ret) = Cardinality(kept)
            /\ \A r \in kept : last.ret[rank(r)] = SubSeq(lowered, r[1], r[2])
            /\ \A i \in DOMAIN last.ret :
                  /\ last.ret[i] # <<>>
                  /\ Range(last.ret[i]) \subseteq LowerSet \cup DigitSet
                  /\ last.ret[i] \notin STOPWORDS
            /\ last.arg = <<>> => last.ret = <<>>
            /\ last.arg = <<"t", "h", "e", " ", "q", "u", "i", "c", "k", " ", "f", "o", "x", " ",
                            "a", "n", "d", " ", "t", "h", "e", " ", "l", "a", "z", "y", " ",
                            "d", "o", "g">> =>
                  last.ret = << <<"q", "u", "i", "c", "k">>, <<"f", "o", "x">>,
                                <<"l", "a", "z", "y">>, <<"d", "o", "g">> >>

\* C14 witness: the text of the example was tokenized and four terms came
\* back, "the" and "and" dropped.
C14_Witness ==
    /\ last.op = "tokenize"
    /\ Len(last.arg) = 30
    /\ Len(last.ret) = 4
    /\ last.ret[4] = <<"d", "o", "g">>

-----------------------------------------------------------------------------
(* Claims about the HashTable *)

Pairs(T) == BucketItems(T.buckets, 0, T.buckets.len)

SeqToSet(q) == {q[i] : i \in DOMAIN q}

RECURSIVE SumSeq(_)
SumSeq(q) == IF q = <<>> THEN 0 ELSE Head(q) + SumSeq(Tail(q))

\* C1: after any sequence of set calls, get(k) returns the value of the most
\* recent set(k, v), also when set calls in between resized the table, and
\* None when k was never set.
C1_GetReturnsLastSet ==
    \A k \in HTKeys : HashTable_get(ht, k) = htLast[k]

\* C1 witness: the table was resized twice from capacity 8, a key was
\* overwritten, and a get returned the overwriting value.
C1_Witness ==
    /\ ht.capacity = 4 * MinCapacity
    /\ htLast[KeyOf(5)] = Some("v2")
    /\ htRet = Some("v2")

\* C2: after every set call that changes the table, with N distinct keys set,
\* size = N and every key is retrievable with its value; a set call that
\* resizes keeps every pair exactly once (the old pairs and the new one,
\* nothing dropped, nothing duplicated) and leaves size at the value it had
\* before the resize (the old size plus one).
C2_ResizePreservesEntries ==
    [][ ht' # ht =>
        /\ ht'.size = Cardinality({k \in HTKeys : htLast'[k] # None})
        /\ \A k \in HTKeys : htLast'[k] # None => HashTable_get(ht', k) = htLast'[k]
        /\ ht'.capacity # ht.capacity =>
             /\ Len(Pairs(ht')) = Len(Pairs(ht)) + 1
             /\ SeqToSet(Pairs(ht')) =
                    SeqToSet(Pairs(ht)) \cup
                        {<<k, htLast'[k][1]>> : k \in {j \in HTKeys : htLast[j] = None /\ htLast'[j] # None}}
             /\ ht'.size = ht.size + 1
             /\ ht'.capacity = 2 * ht.capacity
      ]_vars

\* C2 witness: 13 distinct keys in a table created with capacity 8, which has
\* crossed two resize thresholds.
C2_Witness ==
    /\ ht.capacity = 4 * MinCapacity
    /\ ht.size = 13
    /\ Cardinality({k \in HTKeys : htLast[k] # None}) = 13

\* C15: after every set call that changes the table each key stands in at
\* most one pair over all buckets and size is the number of stored pairs; a
\* set on a key that is present replaces the value of its pair where the pair
\* stands and leaves every other pair, size, capacity and the number of
\* buckets as they were.
C15_KeysUnique ==
    [][ ht' # ht =>
        \A old \in {Pairs(ht)}, new \in {Pairs(ht')} :
            /\ \A i, j \in DOMAIN new : i # j => new[i][1] # new[j][1]
            /\ ht'.size = Len(new)
            /\ \A k \in HTKeys :
                  (htLast[k] # None /\ htLast'[k] # htLast[k]) =>
                      /\ Len(new) = Len(old)
                      /\ \A i \in DOMAIN old :
                            new[i] = IF old[i][1] = k THEN <<k, htLast'[k][1]>> ELSE old[i]
                      /\ ht'.size = ht.size
                      /\ ht'.capacity = ht.capacity
                      /\ ht'.buckets.len = ht.buckets.len
      ]_vars

\* C15 witness: a table of 13 keys in which the key set last, the tail of a
\* chain of four, has been overwritten.
C15_Witness ==
    /\ ht.size = 13
    /\ htLast[KeyOf(13)] = Some("v2")
    /\ \E i \in DOMAIN Pairs(ht) : Pairs(ht)[i] = <<KeyOf(13), "v2">>

\* the capacities a table can start with
InitialCapacities == {Max(MinCapacity, cap) : cap \in HTInitCapacities}

\* C16: after every set call size/capacity <= 0.75; capacity is doubled, once,
\* exactly when a set of a new key makes size/capacity exceed 0.75, and is
\* unchanged by every other call; it never shrinks and is an initial capacity
\* (at least 8) times a power of two.
C16_LoadFactor ==
    [][ LET new_key == \E k \in HTKeys : htLast[k] = None /\ htLast'[k] # None
        IN  /\ 4 * ht'.size <= 3 * ht'.capacity
            /\ ht'.capacity =
                  IF new_key /\ 4 * (ht.size + 1) > 3 * ht.capacity
                  THEN 2 * ht.capacity ELSE ht.capacity
            /\ ht'.capacity >= ht.capacity
            /\ \E c \in InitialCapacities, n \in 0 .. HTMaxKeys :
                  c >= 8 /\ ht'.capacity = c * 2 ^ n
      ]_vars

\* C16 witness: a table created with capacity 12 has just doubled: the tenth
\* key made 10/12 exceed 0.75 (the ninth, at 9/12, had not).
C16_Witness ==
    /\ ht.capacity = 24
    /\ ht.size = 10

\* the polynomial hash of the whole key, reduced once: the sum of
\* ord(key[i]) * 31^(n - i), modulo cap
PolyHash(key, cap) ==
    SumSeq([i \in DOMAIN key |-> Ord(key[i]) * 31 ^ (Len(key) - i)]) % cap

\* C17: between HashTable operations the number of buckets is capacity and
\* every stored pair lies in the bucket whose index is the hash of its key
\* under the current capacity; no pair stays where an earlier capacity put it.
C17_BucketOfHash ==
    /\ ht.buckets.len = ht.capacity
    /\ DOMAIN ht.buckets.at \subseteq 0 .. ht.capacity - 1
    /\ \A index \in DOMAIN ht.buckets.at :
          \A n \in DOMAIN ht.buckets.at[index] :
              /\ PolyHash(ht.buckets.at[index][n][1], ht.capacity) = index
              /\ HashTable_hash(ht, ht.buckets.at[index][n][1]) = index

\* C17 witness: after two resizes from capacity 8 the table of 32 buckets
\* holds "ca" in bucket 30; capacity 8 had put it in bucket 6, capacity 16 in
\* bucket 14.
C17_Witness ==
    /\ ht.capacity = 32
    /\ PolyHash(<<"c", "a">>, 8) = 6 /\ PolyHash(<<"c", "a">>, 16) = 14
    /\ \E n \in DOMAIN Bucket(ht.buckets, 30) : Bucket(ht.buckets, 30)[n][1] = <<"c", "a">>

-----------------------------------------------------------------------------
(* Claims about the index engine *)

\* the accepted documents and their terms, from the history of calls
DocIds == {ingested[i].doc_id : i \in DOMAIN ingested}

DocTokens(d) == tokenize(ingested[CHOOSE i \in DOMAIN ingested : ingested[i].doc_id = d].content)

\* the number of occurrences of term t in a token sequence
TF(t, tokens) == Cardinality({i \in DOMAIN tokens : tokens[i] = t})

\* the score the specification gives document d for a sequence of terms
TermScore(terms, d) == SumSeq([i \in DOMAIN terms |-> TF(terms[i], DocTokens(d))])

\* a ranked list holds exactly the documents with a positive score, each once,
\* with its score, in descending order of score
IsRanking(r, score(_)) ==
    /\ {r[i][1] : i \in DOMAIN r} = {d \in DocIds : score(d) > 0}
    /\ \A i, j \in DOMAIN r : i # j => r[i][1] # r[j][1]
    /\ \A i \in DOMAIN r : r[i][2] = score(r[i][1])
    /\ \A i, j \in DOMAIN r : i < j => r[i][2] >= r[j][2]

\* C3: keyword_search(query) returns exactly the documents with a positive
\* score, the score of d being the sum over the token occurrences of the query
\* of the term's frequency in d, sorted by score descending; an empty token
\* sequence gives the empty list; with A = "cat dog cat" and B = "dog dog",
\* "dog" gives [(B,2),(A,1)] and "cat dog" gives [(A,3),(B,2)].
C3_KeywordScores ==
    last.op = "keyword_search" =>
        LET r == last.ret
            score(d) == TermScore(tokenize(last.arg), d)
        IN  /\ IsRanking(r, score)
            /\ tokenize(last.arg) = <<>> => r = <<>>
            /\ (Len(ingested) = 2 /\ ingested[1].content = ContentA
                                  /\ ingested[2].content = ContentB) =>
                  /\ last.arg = <<"d", "o", "g">> => r = << <<2, 2>>, <<1, 1>> >>
                  /\ last.arg = <<"c", "a", "t", " ", "d", "o", "g">> =>
                        r = << <<1, 3>>, <<2, 2>> >>

\* C3 witness: A and B are ingested and keyword_search("cat dog") returned
\* [(A,3),(B,2)].
C3_Witness ==
    /\ Len(ingested) = 2 /\ ingested[1].content = ContentA /\ ingested[2].content = ContentB
    /\ last.op = "keyword_search"
    /\ last.arg = <<"c", "a", "t", " ", "d", "o", "g">>
    /\ last.ret = << <<1, 3>>, <<2, 2>> >>

\* C4: add_document of a content without terms returns -1 and leaves
\* doc_counter, the document table, the inverted index and the trie as they were.
C4_RejectionChangesNothing ==
    [][ (last'.op = "add_document" /\ tokenize(last'.arg.content) = <<>>) =>
            /\ last'.ret = -1
            /\ UNCHANGED <<inverted_index, lists, trie, documents, doc_counter>>
      ]_vars

\* C4 witness: with two documents indexed, a stopword-only content was rejected.
C4_Witness ==
    /\ last.op = "add_document"
    /\ last.arg.content = <<"t", "h", "e", " ", "a">>
    /\ last.ret = -1
    /\ doc_counter = 2 /\ Len(documents) = 2

DocKeys == {documents[i][1] : i \in DOMAIN documents}

\* C5: the keys of the document table are exactly 1 .. doc_counter, each once;
\* the k-th accepted call returns k, a rejected call consumes no id, and no
\* call changes or removes a record that exists.
C5_SequentialIds ==
    [][ /\ DocKeys' = 1 .. doc_counter'
        /\ Len(documents') = doc_counter'
        /\ \A i \in DOMAIN documents : i \in DOMAIN documents' /\ documents'[i] = documents[i]
        /\ last'.op = "add_document" =>
              IF tokenize(last'.arg.content) = <<>>
              THEN last'.ret = -1 /\ doc_counter' = doc_counter
              ELSE /\ last'.ret = doc_counter + 1
                   /\ last'.ret = Len(ingested) + 1
                   /\ doc_counter' = last'.ret
                   /\ Dict_get(documents', last'.ret, None) =
                        [title |-> last'.arg.title, filename |-> last'.arg.filename,
                         length |-> ToStr(Len(tokenize(last'.arg.content)))]
      ]_vars

\* C5 witness: the third accepted call returned id 3.
C5_Witness ==
    /\ last.op = "add_document" /\ last.ret = 3
    /\ DocKeys = {1, 2, 3}

Vocabulary == {p \in DOMAIN trie : trie[p].is_end}

\* C7: every element of the list Trie.autocomplete returns is a pair (term,
\* document frequency), so the /autocomplete handler answers with one
\* {term, frequency} object per ranked vocabulary term.
C7_AutocompletePairs ==
    last.op = "autocomplete" =>
        /\ "suggestions" \in DOMAIN last.ret
        /\ \A i \in DOMAIN last.ret.suggestions :
              \E t \in Vocabulary :
                  last.ret.suggestions[i] =
                      [term |-> PyStr(t), frequency |-> PyInt(trie[t].frequency)]

\* the child of node p on the way to term s
ChildRank(p, ch) == IndexOf(trie[p].children, ch)

\* breadth-first encounter order: shallower first; at equal depth, by the
\* insertion rank of the children where the two paths part
BfsBefore(s, t) ==
    \/ Len(s) < Len(t)
    \/ /\ Len(s) = Len(t)
       /\ \E k \in DOMAIN s :
             /\ SubSeq(s, 1, k - 1) = SubSeq(t, 1, k - 1)
             /\ s[k] # t[k]
             /\ ChildRank(SubSeq(s, 1, k - 1), s[k]) < ChildRank(SubSeq(s, 1, k - 1), t[k])

RankedBefore(s, t) ==
    \/ trie[s].frequency > trie[t].frequency
    \/ trie[s].frequency = trie[t].frequency /\ BfsBefore(s, t)

\* C8: Trie.autocomplete(prefix, limit), limit >= 0, is empty when no node is
\* reached by prefix; otherwise it is the first min(limit, n) of the n terminal
\* terms under prefix (prefix included), ordered by frequency descending and,
\* at equal frequency, by breadth-first encounter order.
C8_AutocompleteRanking ==
    last.op = "trie.autocomplete" =>
        LET prefix == last.arg[1]
            limit == last.arg[2]
            r == last.ret
            terms == {p \in Vocabulary : StartsWith(p, prefix)}
        IN  IF prefix \notin DOMAIN trie THEN r = <<>>
            ELSE /\ Len(r) = Min(limit, Cardinality(terms))
                 /\ \A i \in DOMAIN r : r[i] \in terms
                 /\ \A i, j \in DOMAIN r : i < j => RankedBefore(r[i], r[j])
                 /\ \A t \in terms \ Range(r) : \A i \in DOMAIN r : RankedBefore(r[i], t)

\* C8 witness: under "ca" there are two terms of frequency 2 and the term "ca"
\* itself of frequency 1, met first by the traversal; autocomplete("ca", 2)
\* returned the two terms of frequency 2.
C8_Witness ==
    /\ last.op = "trie.autocomplete"
    /\ last.arg = << <<"c", "a">>, 2 >>
    /\ Len(last.ret) = 2
    /\ <<"c", "a">> \in Vocabulary /\ trie[<<"c", "a">>].frequency = 1
    /\ \A i \in DOMAIN last.ret : trie[last.ret[i]].frequency = 2

\* the expansions of the query tokens, one list per token occurrence, in order
RECURSIVE Expansions(_, _)
Expansions(query_tokens, i) ==
    IF i > Len(query_tokens) THEN <<>>
    ELSE Trie_autocomplete(trie, query_tokens[i], PrefixLimit) \o Expansions(query_tokens, i + 1)

\* C9: prefix_search(query) scores d with the sum, over every token occurrence
\* q of the query and every term t of autocomplete(q, 25), of the frequency of
\* t in d, a term reached twice counting twice; it returns exactly the
\* documents with a positive score, sorted by score descending.
C9_PrefixScoresAdditive ==
    last.op = "prefix_search" =>
        LET r == last.ret
            expanded == Expansions(tokenize(last.arg), 1)
            score(d) == TermScore(expanded, d)
        IN  /\ IsRanking(r, score)
            /\ \A q \in Range(tokenize(last.arg)) :
                  Len(Trie_autocomplete(trie, q, PrefixLimit)) <= PrefixLimit

\* C9 witness: A = "cat dog cat" holds "cat" twice; prefix_search("c ca")
\* reaches "cat" through "c" and through "ca" and scores A with 4.
C9_Witness ==
    /\ last.op = "prefix_search"
    /\ last.arg = <<"c", " ", "c", "a">>
    /\ Len(ingested) >= 1 /\ ingested[1].content = ContentA
    /\ \E i \in DOMAIN last.ret : last.ret[i] = <<1, 4>>

\* C10: the frequency stored at a term's terminal node is the number of
\* accepted documents holding the term at least once, whatever the number of
\* occurrences inside a document; every term of a document has such a node.
C10_DocumentFrequency ==
    /\ \A p \in DOMAIN trie :
          /\ trie[p].frequency = Cardinality({d \in DocIds : TF(p, DocTokens(d)) > 0})
          /\ trie[p].is_end <=> trie[p].frequency > 0
    /\ \A d \in DocIds : Range(DocTokens(d)) \subseteq Vocabulary

\* C10 witness: "cat" stands twice in A and once in a second document, and
\* its frequency is 2.
C10_Witness ==
    /\ Len(ingested) = 2 /\ ingested[1].content = ContentA
    /\ TF(<<"c", "a", "t">>, DocTokens(1)) = 2
    /\ TF(<<"c", "a", "t">>, DocTokens(2)) = 1
    /\ trie[<<"c", "a", "t">>].frequency = 2

\* the ids of the documents whose filename, compared as fn(filename) gives it,
\* starts with (prefix) or contains the trimmed, lowercased query
FilenameMatches(query, prefix, fn(_)) ==
    LET q == Lower(Strip(query))
    IN  {documents[i][1] : i \in
            {j \in DOMAIN documents :
                IF prefix THEN StartsWith(fn(documents[j][2].filename), q)
                ELSE Contains(fn(documents[j][2].filename), q)}}

\* a list of (doc_id, 1) pairs, one for each id of the set, in increasing doc_id
IsFilenameResult(r, ids) ==
    /\ {r[i][1] : i \in DOMAIN r} = ids
    /\ \A i \in DOMAIN r : r[i][2] = 1
    /\ \A i, j \in DOMAIN r : i < j => r[i][1] < r[j][1]

AsStored(filename) == filename

\* C11 as stated: the filename itself is compared with the lowercased,
\* trimmed query, so "Report2.PDF" does not contain "report".
C11_FilenameAsStored ==
    last.op = "filename_search" =>
        IF Lower(Strip(last.arg[1])) = <<>> THEN last.ret = <<>>
        ELSE IsFilenameResult(last.ret, FilenameMatches(last.arg[1], last.arg[2], AsStored))

\* C11 amended: filename_search(query, prefix) returns [] when the trimmed
\* query is empty; otherwise exactly one pair (doc_id, 1) for each document
\* whose lowercased filename starts with (prefix) or contains the lowercased,
\* trimmed query, in increasing doc_id; with A, B, C ingested in that order
\* and only B and C containing "report" the result is [(B,1),(C,1)].
C11_FilenameSearch ==
    last.op = "filename_search" =>
        IF Lower(Strip(last.arg[1])) = <<>> THEN last.ret = <<>>
        ELSE IsFilenameResult(last.ret, FilenameMatches(last.arg[1], last.arg[2], Lower))

\* C11 witness: three documents, the second and third with "report" in their
\* filename, the third in capitals, and filename_search(" REPORT ", False)
\* returned [(2,1),(3,1)].
C11_Witness ==
    /\ Len(documents) = 3
    /\ documents[1][2].filename = <<"a", ".", "t", "x", "t">>
    /\ documents[3][2].filename # Lower(documents[3][2].filename)
    /\ last.op = "filename_search"
    /\ last.arg = << <<" ", "R", "E", "P", "O", "R", "T", " ">>, FALSE >>
    /\ last.ret = << <<2, 1>>, <<3, 1>> >>

\* the documents holding term t, in ingestion order: the documents of t's
\* posting list in the order of the list
PostingDocs(t) ==
    SelectSeq([i \in DOMAIN ingested |-> ingested[i].doc_id],
              LAMBDA d : TF(t, DocTokens(d)) > 0)

\* the documents in the order the candidate terms' posting lists give them
RECURSIVE Encountered(_, _)
Encountered(terms, i) ==
    IF i > Len(terms) THEN <<>>
    ELSE PostingDocs(terms[i]) \o Encountered(terms, i + 1)

FirstSeen(seen, d) == CHOOSE i \in DOMAIN seen : seen[i] = d /\ \A j \in 1 .. i - 1 : seen[j] # d

\* C12: in a keyword_search or prefix_search result two documents of equal
\* score stand in the order in which they were first met while the candidate
\* terms (in query order) and their posting lists (in insertion order) were
\* walked.
C12_TiesFirstSeen ==
    last.op \in {"keyword_search", "prefix_search"} =>
        LET r == last.ret
            terms == IF last.op = "keyword_search" THEN tokenize(last.arg)
                     ELSE Expansions(tokenize(last.arg), 1)
            seen == Encountered(terms, 1)
        IN  \A i, j \in DOMAIN r :
                (i < j /\ r[i][2] = r[j][2]) =>
                    /\ r[i][1] \in Range(seen) /\ r[j][1] \in Range(seen)
                    /\ FirstSeen(seen, r[i][1]) < FirstSeen(seen, r[j][1])

\* C12 witness: a prefix_search result with two documents of equal score, the
\* one ingested later standing first because its posting was met first.
C12_Witness ==
    /\ last.op = "prefix_search"
    /\ \E i, j \in DOMAIN last.ret :
          /\ i < j
          /\ last.ret[i][2] = last.ret[j][2]
          /\ last.ret[i][1] > last.ret[j][1]

\* the operations that only read
QueryOps ==
    {"keyword_search", "prefix_search", "filename_search", "trie.autocomplete",
     "inverted_index.get"}

\* C13: a step of keyword_search, prefix_search, filename_search,
\* HashTable.get or Trie.autocomplete leaves the document table, doc_counter,
\* the inverted index with every posting list and the trie unchanged; a step
\* that changes one of them is an add_document that accepted its document.
C13_QueriesReadOnly ==
    [][ /\ last'.op \in QueryOps =>
              UNCHANGED <<documents, doc_counter, inverted_index, lists, trie>>
        /\ <<documents, doc_counter, inverted_index, lists, trie>>' #
              <<documents, doc_counter, inverted_index, lists, trie>> =>
              last'.op = "add_document" /\ last'.ret # -1
      ]_vars

\* C13 witness: on an engine holding documents, a prefix_search that expanded
\* a prefix and read posting lists has returned a result.
C13_Witness ==
    /\ doc_counter >= 2
    /\ last.op = "prefix_search"
    /\ last.arg = <<"c", " ", "c", "a">>
    /\ Len(last.ret) >= 2

\* the (term, reference) pairs of the inverted index
IndexPairs ==
    UNION {SeqToSet(inverted_index.buckets.at[i]) : i \in DOMAIN inverted_index.buckets.at}

IndexKeys == {kv[1] : kv \in IndexPairs}

\* the posting list stored under term t, empty when t is no key
PostingsOf(t) ==
    LET found == HashTable_get(inverted_index, t)
    IN  IF found = None THEN <<>> ELSE LinkedList_items(lists[found[1]])

\* the terms of the accepted documents
IngestedTerms == UNION {Range(DocTokens(d)) : d \in DocIds}

\* C18: for every term t and accepted document d the posting list under t
\* holds exactly one posting (d, n) when t stands n >= 1 times in d's tokens
\* and no posting of d otherwise; every term_freq is at least 1 and every
\* list is in strictly increasing doc_id order.
C18_PostingLists ==
    \A t \in IndexKeys \cup IngestedTerms \cup IndexTermsPool :
        \A postings \in {PostingsOf(t)} :
            /\ \A d \in DocIds :
                  \A n \in {TF(t, DocTokens(d))} :
                      IF n >= 1
                      THEN Cardinality({i \in DOMAIN postings : postings[i].doc_id = d}) = 1
                           /\ \E i \in DOMAIN postings : postings[i] = Posting(d, n)
                      ELSE \A i \in DOMAIN postings : postings[i].doc_id # d
            /\ \A i \in DOMAIN postings :
                  postings[i].doc_id \in DocIds /\ postings[i].term_freq >= 1
            /\ \A i, j \in DOMAIN postings : i < j => postings[i].doc_id < postings[j].doc_id

\* C18 witness: "cat" stands twice in the first document and once in the
\* second; its list is [(1, 2), (2, 1)] and the list of "dog" holds document 1
\* only.
C18_Witness ==
    /\ PostingsOf(<<"c", "a", "t">>) = <<Posting(1, 2), Posting(2, 1)>>
    /\ PostingsOf(<<"d", "o", "g">>) = <<Posting(1, 1)>>

\* C19: a term is a key of the inverted index exactly when the trie has a
\* terminal node for it, and the frequency of that node is the number of
\* postings in the term's list.
C19_IndexAgreesWithTrie ==
    /\ IndexKeys = Vocabulary
    /\ \A t \in IndexKeys \cup Vocabulary :
          /\ t \in DOMAIN trie
          /\ HashTable_get(inverted_index, t) # None
          /\ trie[t].frequency = Len(PostingsOf(t))

\* C19 witness: three documents are indexed; "cat" has two postings and
\* frequency 2 while "dog" has one posting and frequency 1.
C19_Witness ==
    /\ doc_counter = 3
    /\ <<"c", "a", "t">> \in Vocabulary /\ <<"d", "o", "g">> \in Vocabulary
    /\ trie[<<"c", "a", "t">>].frequency = 2 /\ Len(PostingsOf(<<"c", "a", "t">>)) = 2
    /\ trie[<<"d", "o", "g">>].frequency = 1 /\ Len(PostingsOf(<<"d", "o", "g">>)) = 1

\* the vocabulary terms that token is a prefix of
Completions(token) == {t \in IndexKeys : StartsWith(t, token)}

\* each token of the query is a prefix of at most PrefixLimit vocabulary terms
WithinLimit(query) ==
    \A token \in Range(tokenize(query)) : Cardinality(Completions(token)) <= PrefixLimit

\* every (document, score) of the ranked list `narrow` has its document in
\* `wide` with a score at least as high
Covers(wide, narrow) ==
    \A i \in DOMAIN narrow :
        \E j \in DOMAIN wide : wide[j][1] = narrow[i][1] /\ wide[j][2] >= narrow[i][2]

\* C21: when each token of the query is a prefix of at most 25 vocabulary
\* terms, every document keyword_search(query) returns is returned by
\* prefix_search(query) on the same engine state as well, with a score greater
\* than or equal to its keyword_search score.
C21_PrefixCoversKeyword ==
    /\ (last.op = "keyword_search" /\ WithinLimit(last.arg)) =>
          Covers(prefix_search(Engine, last.arg), last.ret)
    /\ (last.op = "prefix_search" /\ WithinLimit(last.arg)) =>
          Covers(last.ret, keyword_search(Engine, last.arg))

\* C21 witness: k is a prefix of exactly 25 vocabulary terms, itself among
\* them; keyword_search("k") returned the one document holding k with score
\* 1, and prefix_search gives that document a higher score.
C21_Witness ==
    /\ last.op = "keyword_search"
    /\ last.arg = <<"k">>
    /\ Cardinality(Completions(<<"k">>)) = PrefixLimit
    /\ Len(last.ret) = 1 /\ last.ret[1][2] = 1
    /\ \E j \in DOMAIN prefix_search(Engine, last.arg) :
          /\ prefix_search(Engine, last.arg)[j][1] = last.ret[1][1]
          /\ prefix_search(Engine, last.arg)[j][2] > 1

-----------------------------------------------------------------------------
(* Claims about the host application *)

\* C6: ingestion is serialized against readers and other writers: no search
\* or autocomplete call and no second add_document call executes between the
\* start and the end of an add_document call made by /upload.
C6_IngestionSerialized ==
    \A t \in Threads :
        /\ threads[t].writers = {}
        /\ InAddDocument(t) => \A u \in Threads \ {t} : ~InAddDocument(u)

\* C20: add_document calls that interleave statement by statement on one
\* engine return distinct document ids and, once no call is in progress, the
\* document table holds one record for each accepted call and doc_counter is
\* the number of accepted calls.
C20_ConcurrentIdsDistinct ==
    /\ \A i, j \in DOMAIN ingested : i # j => ingested[i].doc_id # ingested[j].doc_id
    /\ (\A t \in Threads : ~InAddDocument(t)) =>
          /\ {documents[i][1] : i \in DOMAIN documents} =
                {ingested[i].doc_id : i \in DOMAIN ingested}
          /\ Len(documents) = Len(ingested)
          /\ doc_counter = Len(ingested)

=============================================================================
